---- MODULE Spec2Model ----
(***************************************************************************)
(* LivePulse event pipeline: the bounded Queue, the WorkerPool, the        *)
(* aggregation Manager / SessionStats and the milestone Tracker.           *)
(*                                                                         *)
(* Each specification drives one component and leaves the variables of     *)
(* the other components unchanged:                                         *)
(*   SpecPool          Queue + WorkerPool: producers, workers, Shutdown    *)
(*                     and ShutdownWithDrain                               *)
(*   FairSpecShutdown  the runs of the pool that end with Shutdown, under  *)
(*                     fair scheduling                                     *)
(*   SpecQueue         Queue.Enqueue, Dequeue (by workers) and Close       *)
(*                     called by any thread, any number of times;          *)
(*                     FairSpecQueue adds fair scheduling                  *)
(*   SpecMgr           Manager.GetOrCreateSession / RemoveSession          *)
(*   SpecStats         Manager.ProcessEvent on SessionStats                *)
(*   SpecMilestone     Milestone.UpdateProgress called by one thread       *)
(*   SpecTracker       Tracker.CheckMilestones called by concurrent        *)
(*                     workers                                             *)
(*   SpecHandler       workers running the handler: ProcessEvent, then     *)
(*                     CheckMilestones on the session's stats              *)
(*   SpecRegister      Tracker.InitializeSession / AddCustomMilestone      *)
(*                     called any number of times, with CheckMilestones    *)
(*   SpecSequential    Manager.ProcessEvent called by one thread, one call *)
(*                     after the other                                     *)
(*   SpecScenario      the join / leave / join scenario, processed by one  *)
(*                     thread                                              *)
(*   SpecSnapshot      SessionStats.GetSnapshot called while other threads *)
(*                     process events of the session                       *)
(*   SpecGetters       Tracker.GetSessionMilestones / GetAchievedMilestones *)
(*                     and a caller that modifies what they return         *)
(*                                                                         *)
(* A critical section that cannot block inside (Enqueue, Close, the two    *)
(* halves of GetOrCreateSession, AddUser, RemoveUser) is one step; every   *)
(* access to shared memory made outside a lock is a step of its own.       *)
(***************************************************************************)
EXTENDS Integers, Sequences, FiniteSets, TLC

(***************************************************************************)
(* Bounds of the model.                                                    *)
(***************************************************************************)
\* capacity handed to NewQueue(size)
QueueSize == 2
\* largest workerCount handed to NewWorkerPool
MaxWorkers == 2
\* number of events the producers offer to Enqueue
NumEvents == 4
\* number of threads calling into the aggregation Manager
NumThreads == 2
\* number of Manager calls (GetOrCreateSession, ProcessEvent) the threads make
MaxCalls == 3
\* number of RemoveSession calls
MaxRemovals == 1
\* number of direct UpdateProgress calls on a milestone
MaxUpdates == 3
\* largest progress value and largest threshold
MaxValue == 3
\* number of CheckMilestones calls the threads make
MaxChecks == 3
\* number of reactions counted while milestones are checked
MaxTotal == 2

VARIABLES
    \* ---- Queue (src/internal/events/queue.go) ----
    events,        \* q.events: the buffered channel's contents, head first
    closed,        \* q.closed (the channel is closed in the same critical section)
    panicked,      \* a thread panicked: close of, or send on, the closed channel
    draining,      \* q.draining
    \* ---- WorkerPool (src/internal/events/worker.go) ----
    workerCount,   \* wp.workerCount
    ctxDone,       \* wp.ctx has been cancelled
    wg,            \* wp.wg counter
    wpc,           \* position of each worker goroutine
    wev,           \* the event a worker holds (0: none)
    mpc,           \* position of the thread that owns the pool
    remaining,     \* local of ShutdownWithDrain: the slice Drain returned
    idx,           \* local of ShutdownWithDrain: index of its range loop
    \* ---- producers and observation of the run ----
    nextEv,        \* next event a producer offers
    enqRes,        \* what Enqueue returned for each event
    started,       \* number of handler invocations begun, per event
    finished,      \* number of handler invocations returned, per event
    errSeen,       \* threads whose handler has returned an error
    bufAtClose,    \* the channel's contents at the moment Close closed it
    deqAfterClose, \* a worker received from the channel after Close
    offeredAfter,  \* events offered to Enqueue after Close
    \* ---- Manager (src/internal/aggregation/manager.go) ----
    sessions,      \* m.sessions: session id -> SessionStats instance (0: no entry)
    nextInst,      \* the next SessionStats instance NewSessionStats allocates
    stats,         \* the SessionStats instances allocated so far, by instance
    \* ---- threads calling into the Manager ----
    tpc,           \* position of each thread
    top,           \* the Manager method the thread was called with
    tsid,          \* local sessionID
    tinst,         \* local stats: the instance GetOrCreateSession returned
    tev,           \* local event of ProcessEvent
    tctr,          \* local counter of IncrementReaction: the type it points at
    \* ---- observation of the run ----
    rets,          \* <<session id, instance>> pairs GetOrCreateSession returned
    stored,        \* <<session id, instance>> pairs ever put in m.sessions
    removed,       \* session ids RemoveSession was called with
    nCalls,        \* Manager calls begun
    nString,       \* ProcessEvent calls on reactions whose reaction_type is a string
    nUnknown,      \* ... of these, with a string outside the known types
    nMalformed,    \* ProcessEvent calls on reactions without a string reaction_type
    \* ---- Tracker and Milestone (package milestones) ----
    heap,          \* the Milestone objects allocated so far, by address
    tmilestones,   \* t.milestones: session id -> slice of Milestone addresses
    tracked,       \* the session ids that have an entry in t.milestones
    now,           \* the clock time.Now() reads
    \* ---- threads calling CheckMilestones ----
    cpc,           \* position of each thread
    cms,           \* local sessionMilestones
    ci,            \* index of the range loop over sessionMilestones
    cval,          \* local totalReactions
    cau,           \* local activeUsers
    \* ---- observation of the run ----
    notifyCount,   \* notification handler invocations, per Milestone address
    nChecks,       \* CheckMilestones calls begun
    hist,          \* UpdateProgress calls made directly: <<value, result>>
    \* ---- one thread calling ProcessEvent, one call after the other ----
    applied,       \* the events processed so far, in the order of the calls
    \* ---- s.mu of the SessionStats of session s1, and a thread in GetSnapshot ----
    readers,       \* read locks held on s.mu
    spc,           \* position of the thread calling GetSnapshot
    snap,          \* the StatsSnapshot the thread is building
    sleft,         \* range loop of GetAllReactionCounts: the types still to read
    nSnaps,        \* GetSnapshot calls that have returned
    \* ---- a caller of the Tracker's getters ----
    got,           \* the slice the getter returned: Milestone addresses
    nWrites,       \* modifications the caller has made through the slice
    \* ---- threads calling Queue.Close() ----
    nCloses        \* Close calls made by threads other than the pool's owner

qvars == <<events, closed, panicked, draining>>
pvars == <<workerCount, ctxDone, wg, wpc, wev, mpc, remaining, idx>>
ovars == <<nextEv, enqRes, started, finished, errSeen, bufAtClose,
           deqAfterClose, offeredAfter>>
poolvars == <<qvars, pvars, ovars>>

mvars == <<sessions, nextInst, stats>>
tvars == <<tpc, top, tsid, tinst, tev, tctr>>
avars == <<rets, stored, removed, nCalls, nString, nUnknown, nMalformed>>
aggvars == <<mvars, tvars, avars>>

trvars == <<heap, tmilestones, tracked, now>>
cvars == <<cpc, cms, ci, cval, cau>>
hvars == <<notifyCount, nChecks, hist>>
trkvars == <<trvars, cvars, hvars>>

seqvars == <<applied>>
snapvars == <<readers, spc, snap, sleft, nSnaps>>
callvars == <<got, nWrites>>
othervars == <<seqvars, snapvars, callvars, nCloses>>

nonpool == <<aggvars, trkvars, othervars>>
nonagg == <<poolvars, trkvars, othervars>>
nontrk == <<poolvars, aggvars, othervars>>
nonseq == <<poolvars, trkvars, snapvars, callvars, nCloses>>
nonsnap == <<poolvars, aggvars, trkvars, seqvars, callvars, nCloses>>
noncall == <<poolvars, aggvars, seqvars, snapvars, nCloses>>
nonqueue == <<aggvars, trkvars, seqvars, snapvars, callvars>>

vars == <<poolvars, aggvars, trkvars, othervars>>

Workers == 1..MaxWorkers
EventIds == 1..NumEvents
Main == 0

(***************************************************************************)
(* Queue                                                                   *)
(***************************************************************************)
\* NewQueue(size): an open, empty channel
NewQueue ==
    /\ events = <<>>
    /\ closed = FALSE
    /\ panicked = FALSE
    /\ draining = FALSE

\* a faulty Enqueue: a full queue evicts its oldest event to take the new one
EnqueueEvicting(e) ==
    /\ IF closed
         THEN /\ enqRes' = [enqRes EXCEPT ![e] = "false"]
              /\ UNCHANGED events
         ELSE /\ events' = IF Len(events) < QueueSize
                             THEN Append(events, e)
                             ELSE Append(Tail(events), e)
              /\ enqRes' = [enqRes EXCEPT ![e] = "true"]
    /\ UNCHANGED <<closed, draining, panicked>>

\* Queue.Enqueue(event), under q.mu.RLock: false when closed; otherwise a
\* non-blocking send that succeeds iff the channel has room
Enqueue(e) ==
    /\ IF closed
         THEN /\ enqRes' = [enqRes EXCEPT ![e] = "false"]
              /\ UNCHANGED events
         ELSE IF Len(events) < QueueSize
           THEN /\ events' = Append(events, e)
                /\ enqRes' = [enqRes EXCEPT ![e] = "true"]
           ELSE /\ enqRes' = [enqRes EXCEPT ![e] = "false"]
                /\ UNCHANGED events
    /\ UNCHANGED <<closed, draining, panicked>>

\* Queue.Len()
QLen == Len(events)

\* Queue.Cap()
QCap == QueueSize

\* a faulty Close: close(q.events) without the look at q.closed; closing the
\* closed channel panics
CloseUnguarded ==
    /\ closed' = TRUE
    /\ panicked' = (panicked \/ closed)
    /\ bufAtClose' = IF closed THEN bufAtClose ELSE events
    /\ UNCHANGED <<events, draining>>

\* Queue.Close(), under q.mu.Lock: `if !q.closed` sets the flag and closes the
\* channel, which is open then; a later call changes nothing
Close ==
    /\ IF ~closed
         THEN /\ closed' = TRUE
              /\ bufAtClose' = events
         ELSE UNCHANGED <<closed, bufAtClose>>
    /\ UNCHANGED <<events, panicked, draining>>

(***************************************************************************)
(* Producers: any thread may call Enqueue at any time                      *)
(***************************************************************************)
Produce ==
    /\ UNCHANGED nonpool
    /\ nextEv <= NumEvents
    /\ Enqueue(nextEv)
    /\ nextEv' = nextEv + 1
    /\ offeredAfter' = IF closed THEN offeredAfter \cup {nextEv} ELSE offeredAfter
    /\ UNCHANGED <<pvars, started, finished, errSeen, bufAtClose, deqAfterClose>>

(***************************************************************************)
(* WorkerPool                                                              *)
(***************************************************************************)
Done(w) == wpc[w] \in {"off", "done"}

\* NewWorkerPool(queue, workerCount, handler): a fresh context, nothing started
NewWorkerPool ==
    /\ workerCount \in 0..MaxWorkers
    /\ ctxDone = FALSE
    /\ wg = 0
    /\ wpc = [w \in Workers |-> "off"]
    /\ wev = [w \in Workers |-> 0]
    /\ mpc = "init"
    /\ remaining = <<>>
    /\ idx = 1

\* WorkerPool.Start(): wg.Add(1) and go wp.worker(i) for each of workerCount
Start ==
    /\ UNCHANGED nonpool
    /\ mpc = "init"
    /\ mpc' = "run"
    /\ wg' = wg + workerCount
    /\ wpc' = [w \in Workers |-> IF w <= workerCount THEN "loop" ELSE "off"]
    /\ UNCHANGED <<qvars, ovars, workerCount, ctxDone, wev, remaining, idx>>

\* a worker returns: the deferred wp.wg.Done()
WorkerExit(w) ==
    /\ wpc' = [wpc EXCEPT ![w] = "done"]
    /\ wg' = wg - 1

\* worker loop, the outer select: ctx.Done() wins over default when cancelled
WorkerCheckCtx(w) ==
    /\ UNCHANGED nonpool
    /\ wpc[w] = "loop"
    /\ IF ctxDone
         THEN WorkerExit(w)
         ELSE /\ wpc' = [wpc EXCEPT ![w] = "dequeue"]
              /\ UNCHANGED wg
    /\ UNCHANGED <<qvars, ovars, workerCount, ctxDone, wev, mpc, remaining, idx>>

\* a faulty Dequeue: the select has no ctx.Done() case
DequeueNoCancel(w) ==
    /\ UNCHANGED nonpool
    /\ wpc[w] = "dequeue"
    /\ \/ /\ events # <<>>
          /\ wev' = [wev EXCEPT ![w] = Head(events)]
          /\ events' = Tail(events)
          /\ deqAfterClose' = (deqAfterClose \/ closed)
          /\ wpc' = [wpc EXCEPT ![w] = "recv"]
          /\ UNCHANGED wg
       \/ /\ events = <<>>
          /\ closed
          /\ WorkerExit(w)
          /\ UNCHANGED <<events, wev, deqAfterClose>>
    /\ UNCHANGED <<closed, draining, panicked, workerCount, ctxDone, mpc, remaining, idx,
                   nextEv, enqRes, started, finished, errSeen, bufAtClose,
                   offeredAfter>>

\* Queue.Dequeue(wp.ctx) as worker w calls it: the select takes any ready case.
\* A receive of an event hands it to the worker; a receive on the closed, empty
\* channel or a fired ctx.Done() returns not-ok and the worker returns.
Dequeue(w) ==
    /\ UNCHANGED nonpool
    /\ wpc[w] = "dequeue"
    /\ \/ /\ events # <<>>
          /\ wev' = [wev EXCEPT ![w] = Head(events)]
          /\ events' = Tail(events)
          /\ deqAfterClose' = (deqAfterClose \/ closed)
          /\ wpc' = [wpc EXCEPT ![w] = "recv"]
          /\ UNCHANGED wg
       \/ /\ events = <<>>
          /\ closed
          /\ WorkerExit(w)
          /\ UNCHANGED <<events, wev, deqAfterClose>>
       \/ /\ ctxDone
          /\ WorkerExit(w)
          /\ UNCHANGED <<events, wev, deqAfterClose>>
    /\ UNCHANGED <<closed, draining, panicked, workerCount, ctxDone, mpc, remaining, idx,
                   nextEv, enqRes, started, finished, errSeen, bufAtClose,
                   offeredAfter>>

\* worker loop: wp.handler(event) is entered (producers offer no nil event,
\* so `if event == nil` never skips one)
WorkerHandle(w) ==
    /\ UNCHANGED nonpool
    /\ wpc[w] = "recv"
    /\ started' = [started EXCEPT ![wev[w]] = @ + 1]
    /\ wpc' = [wpc EXCEPT ![w] = "handle"]
    /\ UNCHANGED <<qvars, workerCount, ctxDone, wg, wev, mpc, remaining, idx,
                   nextEv, enqRes, finished, errSeen, bufAtClose, deqAfterClose,
                   offeredAfter>>

\* a faulty return of the handler: an error makes the worker return
WorkerHandlerReturnsStopOnError(w, err) ==
    /\ UNCHANGED nonpool
    /\ wpc[w] = "handle"
    /\ finished' = [finished EXCEPT ![wev[w]] = @ + 1]
    /\ errSeen' = IF err THEN errSeen \cup {w} ELSE errSeen
    /\ wev' = [wev EXCEPT ![w] = 0]
    /\ IF err
         THEN WorkerExit(w)
         ELSE /\ wpc' = [wpc EXCEPT ![w] = "loop"]
              /\ UNCHANGED wg
    /\ UNCHANGED <<qvars, workerCount, ctxDone, mpc, remaining, idx,
                   nextEv, enqRes, started, bufAtClose, deqAfterClose,
                   offeredAfter>>

\* worker loop: wp.handler(event) returns, with an error or without; an error
\* is logged and the loop goes on
WorkerHandlerReturns(w, err) ==
    /\ UNCHANGED nonpool
    /\ wpc[w] = "handle"
    /\ finished' = [finished EXCEPT ![wev[w]] = @ + 1]
    /\ errSeen' = IF err THEN errSeen \cup {w} ELSE errSeen
    /\ wev' = [wev EXCEPT ![w] = 0]
    /\ wpc' = [wpc EXCEPT ![w] = "loop"]
    /\ UNCHANGED <<qvars, workerCount, ctxDone, wg, mpc, remaining, idx,
                   nextEv, enqRes, started, bufAtClose, deqAfterClose,
                   offeredAfter>>

\* WorkerPool.Shutdown(): wp.cancel()
Shutdown ==
    /\ UNCHANGED nonpool
    /\ mpc = "run"
    /\ ctxDone' = TRUE
    /\ mpc' = "sh_wait"
    /\ UNCHANGED <<qvars, ovars, workerCount, wg, wpc, wev, remaining, idx>>

\* WorkerPool.Shutdown(): wp.wg.Wait() returns, and so does Shutdown
ShutdownWait ==
    /\ UNCHANGED nonpool
    /\ mpc = "sh_wait"
    /\ wg = 0
    /\ mpc' = "sh_returned"
    /\ UNCHANGED <<qvars, ovars, workerCount, ctxDone, wg, wpc, wev, remaining, idx>>

\* WorkerPool.ShutdownWithDrain(): wp.queue.Close()
ShutdownWithDrainClose ==
    /\ UNCHANGED nonpool
    /\ mpc = "run"
    /\ Close
    /\ mpc' = "sd_drain"
    /\ UNCHANGED <<workerCount, ctxDone, wg, wpc, wev, remaining, idx, nextEv,
                   enqRes, started, finished, errSeen, deqAfterClose, offeredAfter>>

\* Queue.Drain(): q.draining = true under q.mu.Lock
DrainBegin ==
    /\ UNCHANGED nonpool
    /\ mpc = "sd_drain"
    /\ draining' = TRUE
    /\ mpc' = "sd_range"
    /\ UNCHANGED <<events, closed, panicked, ovars, workerCount, ctxDone, wg, wpc, wev,
                   remaining, idx>>

\* a faulty range loop of Drain: the received event is put in front
DrainReceivePrepend ==
    /\ UNCHANGED nonpool
    /\ mpc = "sd_range"
    /\ events # <<>>
    /\ remaining' = <<Head(events)>> \o remaining
    /\ events' = Tail(events)
    /\ UNCHANGED <<closed, draining, panicked, ovars, workerCount, ctxDone, wg, wpc, wev,
                   mpc, idx>>

\* Queue.Drain(): one iteration of `for event := range q.events`
DrainReceive ==
    /\ UNCHANGED nonpool
    /\ mpc = "sd_range"
    /\ events # <<>>
    /\ remaining' = Append(remaining, Head(events))
    /\ events' = Tail(events)
    /\ UNCHANGED <<closed, draining, panicked, ovars, workerCount, ctxDone, wg, wpc, wev,
                   mpc, idx>>

\* Queue.Drain(): the range loop ends on the closed, empty channel
DrainReturn ==
    /\ UNCHANGED nonpool
    /\ mpc = "sd_range"
    /\ events = <<>>
    /\ closed
    /\ mpc' = "sd_handle"
    /\ idx' = 1
    /\ UNCHANGED <<qvars, ovars, workerCount, ctxDone, wg, wpc, wev, remaining>>

\* a faulty loop over remaining: the drained event is skipped, not handled
DrainHandleSkip ==
    /\ UNCHANGED nonpool
    /\ mpc = "sd_handle"
    /\ idx <= Len(remaining)
    /\ idx' = idx + 1
    /\ UNCHANGED <<qvars, ovars, workerCount, ctxDone, wg, wpc, wev, mpc, remaining>>

\* ShutdownWithDrain: wp.handler(event) is entered for remaining[idx]
DrainHandle ==
    /\ UNCHANGED nonpool
    /\ mpc = "sd_handle"
    /\ idx <= Len(remaining)
    /\ started' = [started EXCEPT ![remaining[idx]] = @ + 1]
    /\ mpc' = "sd_handling"
    /\ UNCHANGED <<qvars, workerCount, ctxDone, wg, wpc, wev, remaining, idx,
                   nextEv, enqRes, finished, errSeen, bufAtClose, deqAfterClose,
                   offeredAfter>>

\* ShutdownWithDrain: the handler returns; an error is logged and the loop goes on
DrainHandlerReturns(err) ==
    /\ UNCHANGED nonpool
    /\ mpc = "sd_handling"
    /\ finished' = [finished EXCEPT ![remaining[idx]] = @ + 1]
    /\ errSeen' = IF err THEN errSeen \cup {Main} ELSE errSeen
    /\ idx' = idx + 1
    /\ mpc' = "sd_handle"
    /\ UNCHANGED <<qvars, workerCount, ctxDone, wg, wpc, wev, remaining,
                   nextEv, enqRes, started, bufAtClose, deqAfterClose,
                   offeredAfter>>

\* ShutdownWithDrain: wp.cancel() after the loop over remaining
ShutdownWithDrainCancel ==
    /\ UNCHANGED nonpool
    /\ mpc = "sd_handle"
    /\ idx > Len(remaining)
    /\ ctxDone' = TRUE
    /\ mpc' = "sd_wait"
    /\ UNCHANGED <<qvars, ovars, workerCount, wg, wpc, wev, remaining, idx>>

\* ShutdownWithDrain: wp.wg.Wait() returns, and so does ShutdownWithDrain
ShutdownWithDrainWait ==
    /\ UNCHANGED nonpool
    /\ mpc = "sd_wait"
    /\ wg = 0
    /\ mpc' = "sd_returned"
    /\ UNCHANGED <<qvars, ovars, workerCount, ctxDone, wg, wpc, wev, remaining, idx>>

(***************************************************************************)
(* Events (package events)                                                 *)
(***************************************************************************)
Sids == {"s1", "s2"}
Users == {"u1", "u2"}
Threads == 1..NumThreads

\* the ReactionType constants
KnownTypes == {"like", "love", "cheer", "applause", "fire", "heart"}

\* The dynamic value of payload["reaction_type"]: its Go type and its value.
\* A missing key is kind "absent".
Absent == [kind |-> "absent", val |-> ""]
StringValue(v) == [kind |-> "string", val |-> v]
ReactionTypeValue(v) == [kind |-> "ReactionType", val |-> v]
NumberValue(v) == [kind |-> "float64", val |-> v]

\* NewEvent(eventType, sessionID, userID, payload)
NewEvent(eventType, sessionID, userID, payload) ==
    [Type |-> eventType, SessionID |-> sessionID, UserID |-> userID,
     Payload |-> payload]

\* ReactionEvent(sessionID, userID, reactionType): the payload holds the
\* ReactionType value itself
ReactionEvent(sessionID, userID, reactionType) ==
    NewEvent("reaction", sessionID, userID, ReactionTypeValue(reactionType))

\* JoinSessionEvent(sessionID, userID)
JoinSessionEvent(sessionID, userID) ==
    NewEvent("join_session", sessionID, userID, Absent)

\* LeaveSessionEvent(sessionID, userID)
LeaveSessionEvent(sessionID, userID) ==
    NewEvent("leave_session", sessionID, userID, Absent)

NoEvent == NewEvent("", "", "", Absent)

\* Event.GetReactionType(): <<reaction type, ok>>; the assertion .(string)
\* succeeds only on a value whose dynamic type is string
GetReactionType(e) ==
    IF e.Type # "reaction"
      THEN <<"", FALSE>>
      ELSE IF e.Payload.kind = "string"
        THEN <<e.Payload.val, TRUE>>
        ELSE <<"", FALSE>>

(***************************************************************************)
(* SessionStats (package aggregation)                                      *)
(***************************************************************************)
\* NewSessionStats(sessionID)
NewSessionStats ==
    [ActiveUsers |-> {},
     ReactionCounts |-> [rt \in KnownTypes |-> 0],
     TotalReactions |-> 0,
     PeakConcurrentUsers |-> 0]

\* a faulty AddUser: the peak is not raised
AddUserNoPeak(st, userID) ==
    [st EXCEPT !.ActiveUsers = @ \cup {userID}]

\* SessionStats.AddUser(userID), under s.mu.Lock
AddUser(st, userID) ==
    LET active == st.ActiveUsers \cup {userID}
        currentCount == Cardinality(active)
    IN  [st EXCEPT !.ActiveUsers = active,
                   !.PeakConcurrentUsers =
                       IF currentCount > @ THEN currentCount ELSE @]

\* a faulty RemoveUser: the user stays in the set
RemoveUserKeepsUser(st, userID) ==
    [st EXCEPT !.ActiveUsers = @ \cup {userID}]

\* SessionStats.RemoveUser(userID), under s.mu.Lock
RemoveUser(st, userID) ==
    [st EXCEPT !.ActiveUsers = @ \ {userID}]

\* SessionStats.GetActiveUserCount()
GetActiveUserCount(st) == Cardinality(st.ActiveUsers)

\* SessionStats.GetTotalReactions()
GetTotalReactions(st) == st.TotalReactions

\* SessionStats.GetReactionCount(reactionType)
GetReactionCount(st, reactionType) ==
    IF reactionType \in DOMAIN st.ReactionCounts
      THEN st.ReactionCounts[reactionType]
      ELSE 0

\* a faulty IncrementReaction: the total is recomputed from the per-type
\* counters, so a reaction of unknown type counted earlier is forgotten
IncrementReactionRecount(st, reactionType) ==
    IF reactionType \in DOMAIN st.ReactionCounts
      THEN [st EXCEPT !.ReactionCounts[reactionType] = @ + 1,
                      !.TotalReactions =
                          st.ReactionCounts["like"] + st.ReactionCounts["love"]
                            + st.ReactionCounts["cheer"]
                            + st.ReactionCounts["applause"]
                            + st.ReactionCounts["fire"]
                            + st.ReactionCounts["heart"] + 1]
      ELSE [st EXCEPT !.TotalReactions = @ + 1]

\* SessionStats.IncrementReaction(reactionType) run without interference: a
\* known type adds 1 to its counter and 1 to the total, any other type adds
\* 1 to the total only
IncrementReaction(st, reactionType) ==
    IF reactionType \in DOMAIN st.ReactionCounts
      THEN [st EXCEPT !.ReactionCounts[reactionType] = @ + 1,
                      !.TotalReactions = @ + 1]
      ELSE [st EXCEPT !.TotalReactions = @ + 1]

\* Manager.ProcessEvent run without interference, after GetOrCreateSession:
\* the switch on event.Type applied to the session's stats
ProcessEventOn(st, ev) ==
    LET rt == GetReactionType(ev)
    IN  CASE ev.Type = "join_session" -> AddUser(st, ev.UserID)
          [] ev.Type = "leave_session" -> RemoveUser(st, ev.UserID)
          [] ev.Type = "reaction" /\ rt[2] -> IncrementReaction(st, rt[1])
          [] OTHER -> st

(***************************************************************************)
(* Manager (package aggregation) and the threads that call it              *)
(***************************************************************************)
\* NewManager(): an empty registry
NewManager ==
    /\ sessions = [sid \in Sids |-> 0]
    /\ nextInst = 1
    /\ stats = <<>>

ThreadsIdle ==
    /\ tpc = [t \in Threads |-> "idle"]
    /\ top = [t \in Threads |-> ""]
    /\ tsid = [t \in Threads |-> ""]
    /\ tinst = [t \in Threads |-> 0]
    /\ tev = [t \in Threads |-> NoEvent]
    /\ tctr = [t \in Threads |-> ""]

NothingObserved ==
    /\ rets = {}
    /\ stored = {}
    /\ removed = {}
    /\ nCalls = 0
    /\ nString = 0
    /\ nUnknown = 0
    /\ nMalformed = 0

AggIdle == NewManager /\ ThreadsIdle /\ NothingObserved


(***************************************************************************)
(* Milestone (package milestones)                                          *)
(***************************************************************************)
Digit(d) == <<"0", "1", "2", "3", "4", "5", "6", "7", "8", "9">>[d + 1]

RECURSIVE FormatNat(_)
\* the decimal digits of a natural number, most significant first
FormatNat(n) ==
    IF n < 10 THEN <<Digit(n)>> ELSE Append(FormatNat(n \div 10), Digit(n % 10))

\* strconv.FormatInt(n, 10): the characters of n in base 10
FormatInt(n) == IF n < 0 THEN <<"-">> \o FormatNat(0 - n) ELSE FormatNat(n)

\* generateMilestoneID(sessionID, milestoneType, threshold): the three parts
\* joined with "_"
generateMilestoneID(sessionID, milestoneType, threshold) ==
    <<sessionID, "_", milestoneType, "_">> \o FormatInt(threshold)

\* NewMilestone(sessionID, milestoneType, threshold); AchievedAt 0 is nil
NewMilestone(sessionID, milestoneType, threshold) ==
    [ID |-> generateMilestoneID(sessionID, milestoneType, threshold),
     SessionID |-> sessionID,
     Type |-> milestoneType,
     Threshold |-> threshold,
     Progress |-> 0,
     Achieved |-> FALSE,
     AchievedAt |-> 0]

\* a faulty UpdateProgress: the test does not look at m.Achieved
UpdateProgressNoLatch(m, currentValue, time) ==
    IF currentValue >= m.Threshold
      THEN [m |-> [m EXCEPT !.Progress = currentValue, !.Achieved = TRUE,
                            !.AchievedAt = time],
            ret |-> TRUE]
      ELSE [m |-> [m EXCEPT !.Progress = currentValue], ret |-> FALSE]

\* Milestone.UpdateProgress(currentValue), run by one thread at clock time
\* `time`: the milestone afterwards and the value returned
UpdateProgress(m, currentValue, time) ==
    IF ~m.Achieved /\ currentValue >= m.Threshold
      THEN [m |-> [m EXCEPT !.Progress = currentValue, !.Achieved = TRUE,
                            !.AchievedAt = time],
            ret |-> TRUE]
      ELSE [m |-> [m EXCEPT !.Progress = currentValue], ret |-> FALSE]

\* NewTracker(notifyFunc): no session has milestones, nothing was notified
NewTracker ==
    /\ heap = <<>>
    /\ tmilestones = [sid \in Sids |-> <<>>]
    /\ tracked = {}
    /\ notifyCount = <<>>

CheckersIdle ==
    /\ cpc = [c \in Threads |-> "idle"]
    /\ cms = [c \in Threads |-> <<>>]
    /\ ci = [c \in Threads |-> 1]
    /\ cval = [c \in Threads |-> 0]
    /\ cau = [c \in Threads |-> 0]

TrackerIdle ==
    /\ NewTracker
    /\ CheckersIdle
    /\ now = 1
    /\ nChecks = 0
    /\ hist = <<>>

\* no call of the sequential thread has been made
NothingApplied == applied = <<>>

\* the zero StatsSnapshot
NoSnapshot ==
    [ActiveUserCount |-> 0,
     TotalReactions |-> 0,
     ReactionCounts |-> [rt \in KnownTypes |-> 0],
     PeakConcurrentUsers |-> 0]

\* s.mu is free and no GetSnapshot call has been made
SnapshotIdle ==
    /\ readers = 0
    /\ spc = "idle"
    /\ snap = NoSnapshot
    /\ sleft = {}
    /\ nSnaps = 0

\* no getter of the Tracker has been called
CallerIdle ==
    /\ got = <<>>
    /\ nWrites = 0

OthersIdle == NothingApplied /\ SnapshotIdle /\ CallerIdle /\ nCloses = 0

PoolInit ==
    /\ NewQueue
    /\ NewWorkerPool
    /\ nextEv = 1
    /\ enqRes = [e \in EventIds |-> "none"]
    /\ started = [e \in EventIds |-> 0]
    /\ finished = [e \in EventIds |-> 0]
    /\ errSeen = {}
    /\ bufAtClose = <<>>
    /\ deqAfterClose = FALSE
    /\ offeredAfter = {}

NextPool ==
    \/ Produce
    \/ Start
    \/ \E w \in Workers : WorkerCheckCtx(w)
    \/ \E w \in Workers : Dequeue(w)
    \/ \E w \in Workers : WorkerHandle(w)
    \/ \E w \in Workers, err \in BOOLEAN : WorkerHandlerReturns(w, err)
    \/ Shutdown
    \/ ShutdownWait
    \/ ShutdownWithDrainClose
    \/ DrainBegin
    \/ DrainReceive
    \/ DrainReturn
    \/ DrainHandle
    \/ \E err \in BOOLEAN : DrainHandlerReturns(err)
    \/ ShutdownWithDrainCancel
    \/ ShutdownWithDrainWait

InitPool == PoolInit /\ AggIdle /\ TrackerIdle /\ OthersIdle

SpecPool == InitPool /\ [][NextPool]_vars

\* the scheduler runs every runnable goroutine, every handler invocation
\* returns, and a satisfied wg.Wait() returns
FairnessPool ==
    /\ \A w \in Workers : WF_vars(WorkerCheckCtx(w))
    /\ \A w \in Workers : WF_vars(Dequeue(w))
    /\ \A w \in Workers : WF_vars(WorkerHandle(w))
    /\ \A w \in Workers : WF_vars(\E err \in BOOLEAN : WorkerHandlerReturns(w, err))
    /\ WF_vars(ShutdownWait)

\* the runs in which the owner of the pool stops it with Shutdown
NextShutdown ==
    \/ Produce
    \/ Start
    \/ \E w \in Workers : WorkerCheckCtx(w)
    \/ \E w \in Workers : Dequeue(w)
    \/ \E w \in Workers : WorkerHandle(w)
    \/ \E w \in Workers, err \in BOOLEAN : WorkerHandlerReturns(w, err)
    \/ Shutdown
    \/ ShutdownWait

FairSpecShutdown == InitPool /\ [][NextShutdown]_vars /\ FairnessPool

(***************************************************************************)
(* Properties of the Queue and the WorkerPool                              *)
(***************************************************************************)
Range(s) == {s[i] : i \in 1..Len(s)}

NoDuplicates(s) == \A i, j \in 1..Len(s) : i # j => s[i] # s[j]

\* C1: the number of buffered events never exceeds the capacity; an Enqueue
\* on a full queue returns false and leaves the buffer as it was (no older
\* event is evicted); an Enqueue on an open queue with room returns true and
\* appends the event at the tail.
C1_BoundedDropNewest ==
    /\ [](QLen <= QCap)
    /\ [][\A e \in EventIds :
            (enqRes[e] = "none" /\ enqRes'[e] # "none") =>
               /\ QLen = QCap => (enqRes'[e] = "false" /\ events' = events)
               /\ (~closed /\ QLen < QCap) =>
                     (enqRes'[e] = "true" /\ events' = Append(events, e))]_vars

\* C1 witness: an Enqueue has been refused by the open, full queue
C1_Witness ==
    /\ ~closed
    /\ QLen = QCap
    /\ \E e \in EventIds : enqRes[e] = "false"
    /\ \E e \in EventIds : enqRes[e] = "true"

\* C2: when ShutdownWithDrain has returned, every event Enqueue accepted has
\* had the handler invoked on it exactly once and that invocation has
\* returned; no event is ever handled twice, and none that was not accepted.
C2_DrainHandlesEachOnce ==
    /\ \A e \in EventIds : started[e] <= 1 /\ finished[e] <= started[e]
    /\ \A e \in EventIds : started[e] = 1 => enqRes[e] = "true"
    /\ mpc = "sd_returned" =>
          \A e \in EventIds : enqRes[e] = "true" => (started[e] = 1 /\ finished[e] = 1)

\* C2 witness: ShutdownWithDrain has returned with all the workers started,
\* some events handled by the drain and some by a worker
C2_Witness ==
    /\ mpc = "sd_returned"
    /\ workerCount = MaxWorkers
    /\ remaining # <<>>
    /\ \E e \in EventIds : e \notin Range(remaining) /\ finished[e] = 1

\* C6: with no worker receiving after Close, Drain returns exactly the events
\* buffered at Close, each once and in enqueue order; no event offered after
\* Close is in it, and Enqueue returned false for every such event.
C6_CloseThenDrain ==
    /\ (mpc \in {"sd_handle", "sd_handling", "sd_wait", "sd_returned"} /\ ~deqAfterClose)
          => (remaining = bufAtClose /\ NoDuplicates(remaining))
    /\ \A e \in offeredAfter : enqRes[e] = "false" /\ e \notin Range(remaining)

\* C6 witness: Drain has returned two or more events, no worker received
\* after Close and an event was offered after Close
C6_Witness ==
    /\ mpc = "sd_handle"
    /\ ~deqAfterClose
    /\ Len(remaining) >= 2
    /\ offeredAfter # {}

\* C8: a worker returns only because the context was cancelled or the queue
\* was closed, never because a handler returned an error; and once
\* ShutdownWithDrain is past its loop every drained event has been handled,
\* whatever errors the handler returned.
C8_ErrorsDoNotStop ==
    /\ \A w \in Workers : wpc[w] = "done" => (ctxDone \/ closed)
    /\ mpc \in {"sd_wait", "sd_returned"} =>
          \A i \in 1..Len(remaining) : finished[remaining[i]] = 1

\* C8 witness: a worker whose handler returned an error is handling a later
\* event, while the drain, after an error of its own, handles a later event
C8_Witness ==
    /\ \E w \in Workers : w \in errSeen /\ wpc[w] = "handle"
    /\ Main \in errSeen
    /\ mpc = "sd_handling"

\* C9: Shutdown returns (given that handlers return and goroutines are
\* scheduled), also when workers are blocked in Dequeue; when it has returned
\* every worker loop has exited, every handler invocation that was begun has
\* returned, and no handler invocation begins afterwards.
C9_ShutdownReturns ==
    /\ (mpc = "sh_wait") ~> (mpc = "sh_returned")
    /\ [](mpc = "sh_returned" =>
            /\ \A w \in Workers : Done(w)
            /\ \A e \in EventIds : started[e] = finished[e])
    /\ [][mpc = "sh_returned" => started' = started]_vars

\* C9 witness: Shutdown has cancelled and waits while a worker is blocked in
\* Dequeue on the empty, open queue
C9_Witness ==
    /\ mpc = "sh_wait"
    /\ events = <<>>
    /\ ~closed
    /\ \E w \in Workers : wpc[w] = "dequeue"

\* C16: a Dequeue whose cancel signal has already fired returns not-ok and
\* removes no event from the queue, whether or not events are buffered (and
\* a Dequeue blocked on the empty open queue returns not-ok once the signal
\* fires): a worker in Dequeue with wp.ctx cancelled leaves it only by
\* returning, with the buffer untouched.
C16_CancelledDequeueTakesNothing ==
    [][\A w \in Workers :
          (wpc[w] = "dequeue" /\ ctxDone /\ wpc'[w] # "dequeue")
          => (wpc'[w] = "done" /\ events' = events)]_vars

\* C18: ShutdownWithDrain, called while workers are running, handles on the
\* calling thread, in enqueue order, every event that is buffered when the
\* queue is closed: no worker receives such an event, and the slice the
\* calling thread loops over is the buffer as it was at Close.
C18_DrainOnCallingThread ==
    (\E w \in Workers : wpc[w] # "off") =>
        /\ ~deqAfterClose
        /\ mpc \in {"sd_handle", "sd_handling", "sd_wait", "sd_returned"}
              => remaining = bufAtClose

\* GetOrCreateSession returns instance inst to thread t: to its caller when the
\* thread was called with GetOrCreateSession, into ProcessEvent otherwise
GetOrCreateReturn(t, sid, inst, method) ==
    /\ tinst' = [tinst EXCEPT ![t] = inst]
    /\ rets' = rets \cup {<<sid, inst>>}
    /\ tpc' = [tpc EXCEPT ![t] = IF method = "ProcessEvent" THEN "dispatch" ELSE "idle"]

\* Manager.GetOrCreateSession(sessionID), the read under m.mu.RLock: return
\* the entry when there is one, go for the write lock otherwise
GetOrCreateSessionRead(t, sid, method) ==
    /\ tsid' = [tsid EXCEPT ![t] = sid]
    /\ IF sessions[sid] # 0
         THEN GetOrCreateReturn(t, sid, sessions[sid], method)
         ELSE /\ tpc' = [tpc EXCEPT ![t] = "create"]
              /\ UNCHANGED <<tinst, rets>>

\* a faulty creation: no second look at the registry under the write lock
GetOrCreateSessionCreateNoRecheck(t) ==
    /\ UNCHANGED nonagg
    /\ tpc[t] = "create"
    /\ sessions' = [sessions EXCEPT ![tsid[t]] = nextInst]
    /\ stats' = Append(stats, NewSessionStats)
    /\ nextInst' = nextInst + 1
    /\ stored' = stored \cup {<<tsid[t], nextInst>>}
    /\ GetOrCreateReturn(t, tsid[t], nextInst, top[t])
    /\ UNCHANGED <<top, tsid, tev, tctr, removed, nCalls, nString, nUnknown,
                   nMalformed>>

\* Manager.GetOrCreateSession(sessionID), under m.mu.Lock: look again, and
\* create and store a SessionStats only when there is still no entry
GetOrCreateSessionCreate(t) ==
    /\ UNCHANGED nonagg
    /\ tpc[t] = "create"
    /\ IF sessions[tsid[t]] # 0
         THEN /\ GetOrCreateReturn(t, tsid[t], sessions[tsid[t]], top[t])
              /\ UNCHANGED <<sessions, stats, nextInst, stored>>
         ELSE /\ sessions' = [sessions EXCEPT ![tsid[t]] = nextInst]
              /\ stats' = Append(stats, NewSessionStats)
              /\ nextInst' = nextInst + 1
              /\ stored' = stored \cup {<<tsid[t], nextInst>>}
              /\ GetOrCreateReturn(t, tsid[t], nextInst, top[t])
    /\ UNCHANGED <<top, tsid, tev, tctr, removed, nCalls, nString, nUnknown,
                   nMalformed>>

\* a thread calls Manager.GetOrCreateSession(sessionID)
GetOrCreateSession(t, sid) ==
    /\ UNCHANGED nonagg
    /\ tpc[t] = "idle"
    /\ nCalls < MaxCalls
    /\ nCalls' = nCalls + 1
    /\ top' = [top EXCEPT ![t] = "GetOrCreateSession"]
    /\ GetOrCreateSessionRead(t, sid, "GetOrCreateSession")
    /\ UNCHANGED <<mvars, tev, tctr, stored, removed, nString, nUnknown, nMalformed>>

\* Manager.RemoveSession(sessionID), under m.mu.Lock
RemoveSession(sid) ==
    /\ UNCHANGED nonagg
    /\ Cardinality(removed) < MaxRemovals
    /\ sessions' = [sessions EXCEPT ![sid] = 0]
    /\ removed' = removed \cup {sid}
    /\ UNCHANGED <<nextInst, stats, tvars, rets, stored, nCalls, nString,
                   nUnknown, nMalformed>>

PoolIdle == PoolInit /\ workerCount = 0

InitMgr == PoolIdle /\ AggIdle /\ TrackerIdle /\ OthersIdle

NextMgr ==
    \/ \E t \in Threads, sid \in Sids : GetOrCreateSession(t, sid)
    \/ \E t \in Threads : GetOrCreateSessionCreate(t)
    \/ \E sid \in Sids : RemoveSession(sid)

SpecMgr == InitMgr /\ [][NextMgr]_vars

\* the instances GetOrCreateSession returned for a session id
Returned(sid) == {p[2] : p \in {q \in rets : q[1] = sid}}

\* the instances ever stored in the registry for a session id
Stored(sid) == {p[2] : p \in {q \in stored : q[1] = sid}}

\* C5: for a session id no RemoveSession was called with, all calls of
\* GetOrCreateSession return the same instance, at most one instance is ever
\* stored for the id, and the registry still holds the instance returned.
C5_OneInstancePerSession ==
    \A sid \in Sids \ removed :
        /\ Cardinality(Returned(sid)) <= 1
        /\ Cardinality(Stored(sid)) <= 1
        /\ \A i \in Returned(sid) : sessions[sid] = i

\* C5 witness: a call found no entry under the read lock and reaches the
\* write lock after another call has created and returned the session
C5_Witness ==
    \E t \in Threads :
        /\ tpc[t] = "create"
        /\ tsid[t] \notin removed
        /\ sessions[tsid[t]] # 0
        /\ Returned(tsid[t]) # {}

(***************************************************************************)
(* Manager.ProcessEvent on SessionStats                                    *)
(***************************************************************************)
\* the events the threads process: joins and leaves of two users, and
\* reactions whose payload holds a known type as a string, an unknown string,
\* no reaction_type, a number, or the ReactionType the constructor stores
ReactionPayloads ==
    {StringValue("like"), StringValue("fire"), StringValue("wow"),
     Absent, NumberValue("5"), ReactionTypeValue("like")}

EventInputs ==
    {JoinSessionEvent("s1", u) : u \in Users}
      \cup {LeaveSessionEvent("s1", u) : u \in Users}
      \cup {NewEvent("reaction", "s1", "u1", pl) : pl \in ReactionPayloads}

IsStringReaction(e) == e.Type = "reaction" /\ e.Payload.kind = "string"

\* a thread calls Manager.ProcessEvent(event): GetOrCreateSession(event.SessionID)
ProcessEvent(t, ev) ==
    /\ UNCHANGED nonagg
    /\ tpc[t] = "idle"
    /\ nCalls < MaxCalls
    /\ nCalls' = nCalls + 1
    /\ top' = [top EXCEPT ![t] = "ProcessEvent"]
    /\ tev' = [tev EXCEPT ![t] = ev]
    /\ nString' = IF IsStringReaction(ev) THEN nString + 1 ELSE nString
    /\ nUnknown' = IF IsStringReaction(ev) /\ ev.Payload.val \notin KnownTypes
                     THEN nUnknown + 1 ELSE nUnknown
    /\ nMalformed' = IF ev.Type = "reaction" /\ ~IsStringReaction(ev)
                       THEN nMalformed + 1 ELSE nMalformed
    /\ GetOrCreateSessionRead(t, ev.SessionID, "ProcessEvent")
    /\ UNCHANGED <<mvars, tctr, stored, removed>>

\* Manager.ProcessEvent: the switch on event.Type. A join or leave runs
\* AddUser or RemoveUser under s.mu; a reaction whose type GetReactionType
\* extracts enters IncrementReaction, which looks the counter up under s.mu;
\* any other event returns.
ProcessEventSwitch(t) ==
    /\ UNCHANGED nonagg
    /\ tpc[t] = "dispatch"
    /\ LET ev == tev[t]
           rt == GetReactionType(ev)
       IN  CASE ev.Type = "join_session" ->
                  /\ stats' = [stats EXCEPT ![tinst[t]] = AddUser(@, ev.UserID)]
                  /\ tpc' = [tpc EXCEPT ![t] = "idle"]
                  /\ UNCHANGED tctr
             [] ev.Type = "leave_session" ->
                  /\ stats' = [stats EXCEPT ![tinst[t]] = RemoveUser(@, ev.UserID)]
                  /\ tpc' = [tpc EXCEPT ![t] = "idle"]
                  /\ UNCHANGED tctr
             [] ev.Type = "reaction" /\ rt[2] ->
                  /\ IF rt[1] \in DOMAIN stats[tinst[t]].ReactionCounts
                       THEN /\ tctr' = [tctr EXCEPT ![t] = rt[1]]
                            /\ tpc' = [tpc EXCEPT ![t] = "add_counter"]
                       ELSE /\ tpc' = [tpc EXCEPT ![t] = "add_unknown"]
                            /\ UNCHANGED tctr
                  /\ UNCHANGED stats
             [] OTHER ->
                  /\ tpc' = [tpc EXCEPT ![t] = "idle"]
                  /\ UNCHANGED <<stats, tctr>>
    /\ UNCHANGED <<sessions, nextInst, top, tsid, tinst, tev, avars>>

\* a faulty unknown-type branch: it returns without counting the reaction
IncrementReactionUnknownUncounted(t) ==
    /\ UNCHANGED nonagg
    /\ tpc[t] = "add_unknown"
    /\ tpc' = [tpc EXCEPT ![t] = "idle"]
    /\ UNCHANGED <<mvars, top, tsid, tinst, tev, tctr, avars>>

\* SessionStats.IncrementReaction, unknown type: atomic.AddInt64(s.TotalReactions, 1)
IncrementReactionUnknown(t) ==
    /\ UNCHANGED nonagg
    /\ tpc[t] = "add_unknown"
    /\ stats' = [stats EXCEPT ![tinst[t]].TotalReactions = @ + 1]
    /\ tpc' = [tpc EXCEPT ![t] = "idle"]
    /\ UNCHANGED <<sessions, nextInst, top, tsid, tinst, tev, tctr, avars>>

\* SessionStats.IncrementReaction: atomic.AddInt64(counter, 1)
IncrementReactionCounter(t) ==
    /\ UNCHANGED nonagg
    /\ tpc[t] = "add_counter"
    /\ stats' = [stats EXCEPT ![tinst[t]].ReactionCounts[tctr[t]] = @ + 1]
    /\ tpc' = [tpc EXCEPT ![t] = "add_total"]
    /\ UNCHANGED <<sessions, nextInst, top, tsid, tinst, tev, tctr, avars>>

\* SessionStats.IncrementReaction: atomic.AddInt64(s.TotalReactions, 1)
IncrementReactionTotal(t) ==
    /\ UNCHANGED nonagg
    /\ tpc[t] = "add_total"
    /\ stats' = [stats EXCEPT ![tinst[t]].TotalReactions = @ + 1]
    /\ tpc' = [tpc EXCEPT ![t] = "touch"]
    /\ UNCHANGED <<sessions, nextInst, top, tsid, tinst, tev, tctr, avars>>

\* SessionStats.IncrementReaction: s.LastActivity is set under s.mu.Lock and
\* the call returns
IncrementReactionTouch(t) ==
    /\ UNCHANGED nonagg
    /\ tpc[t] = "touch"
    /\ tpc' = [tpc EXCEPT ![t] = "idle"]
    /\ tctr' = [tctr EXCEPT ![t] = ""]
    /\ UNCHANGED <<mvars, top, tsid, tinst, tev, avars>>

InitStats == PoolIdle /\ AggIdle /\ TrackerIdle /\ OthersIdle

NextStats ==
    \/ \E t \in Threads, ev \in EventInputs : ProcessEvent(t, ev)
    \/ \E t \in Threads : GetOrCreateSessionCreate(t)
    \/ \E t \in Threads : ProcessEventSwitch(t)
    \/ \E t \in Threads : IncrementReactionUnknown(t)
    \/ \E t \in Threads : IncrementReactionCounter(t)
    \/ \E t \in Threads : IncrementReactionTotal(t)
    \/ \E t \in Threads : IncrementReactionTouch(t)

SpecStats == InitStats /\ [][NextStats]_vars

\* every call into the Manager has returned
AllReturned == \A t \in Threads : tpc[t] = "idle"

\* the SessionStats the registry holds for a session id (a fresh one when none)
StatsOf(sid) == IF sessions[sid] = 0 THEN NewSessionStats ELSE stats[sessions[sid]]

\* the sum of the per-type counters
SumCounts(st) ==
    st.ReactionCounts["like"] + st.ReactionCounts["love"]
      + st.ReactionCounts["cheer"] + st.ReactionCounts["applause"]
      + st.ReactionCounts["fire"] + st.ReactionCounts["heart"]

\* C3: once all the ProcessEvent calls have returned, total_reactions equals
\* the number k of reaction events with a string reaction_type that were
\* processed, and the per-type counters plus the number of events with an
\* unknown type string sum to k as well.
C3_NoLostIncrement ==
    AllReturned =>
        /\ GetTotalReactions(StatsOf("s1")) = nString
        /\ SumCounts(StatsOf("s1")) + nUnknown = nString

\* C3 witness: all calls have returned, after reactions of known and of
\* unknown string types
C3_Witness ==
    /\ AllReturned
    /\ nString = MaxCalls
    /\ nUnknown >= 1
    /\ SumCounts(StatsOf("s1")) >= 2

\* C10: every reaction event whose type is unknown or malformed (missing, not
\* a string, or an unknown string) adds exactly 1 to total_reactions and
\* nothing to a per-type counter: once all calls have returned the total
\* counts every reaction event processed, and the per-type counters count
\* the reactions with a known type string.
C10_MalformedCountsInTotal ==
    AllReturned =>
        /\ GetTotalReactions(StatsOf("s1")) = nString + nMalformed
        /\ SumCounts(StatsOf("s1")) = nString - nUnknown

\* C13: in every reachable state of a SessionStats, under any interleaving
\* of AddUser, RemoveUser and IncrementReaction, the peak of concurrent users
\* is at least the number of active users, and the peak, the total of
\* reactions and every per-type counter never decrease.
C13_PeakAndCountersMonotone ==
    /\ [](\A i \in 1..Len(stats) :
            stats[i].PeakConcurrentUsers >= GetActiveUserCount(stats[i]))
    /\ [][\A i \in 1..Len(stats) :
            /\ stats'[i].PeakConcurrentUsers >= stats[i].PeakConcurrentUsers
            /\ stats'[i].TotalReactions >= stats[i].TotalReactions
            /\ \A rt \in KnownTypes :
                  stats'[i].ReactionCounts[rt] >= stats[i].ReactionCounts[rt]]_vars

\* C13 witness: two users have joined and one has left, so the peak stands
\* above the number of active users
C13_Witness ==
    /\ AllReturned
    /\ StatsOf("s1").PeakConcurrentUsers = 2
    /\ GetActiveUserCount(StatsOf("s1")) = 1

(***************************************************************************)
(* Manager.ProcessEvent called by one thread, one call after the other     *)
(***************************************************************************)
\* number of ProcessEvent calls the sequential thread makes
MaxApplied == 3

\* the events the sequential thread processes: joins and leaves of two users,
\* the reaction event the constructor builds for each known type, and
\* reactions that carry their type as a string
SequentialInputs ==
    {JoinSessionEvent("s1", u) : u \in Users}
      \cup {LeaveSessionEvent("s1", u) : u \in Users}
      \cup {ReactionEvent("s1", "u1", rt) : rt \in KnownTypes}
      \cup {NewEvent("reaction", "s1", "u1", StringValue(v)) :
               v \in {"like", "fire", "wow"}}

\* Manager.ProcessEvent(event), the whole call: GetOrCreateSession creates
\* the session on its first event, then the switch runs on its stats
ProcessEventWhole(ev) ==
    /\ LET sid == ev.SessionID
           inst == IF sessions[sid] # 0 THEN sessions[sid] ELSE nextInst
           all == IF sessions[sid] # 0 THEN stats ELSE Append(stats, NewSessionStats)
       IN  /\ sessions' = [sessions EXCEPT ![sid] = inst]
           /\ nextInst' = IF sessions[sid] # 0 THEN nextInst ELSE nextInst + 1
           /\ stats' = [all EXCEPT ![inst] = ProcessEventOn(@, ev)]
    /\ applied' = Append(applied, ev)
    /\ UNCHANGED <<tvars, avars>>

\* the sequential thread calls Manager.ProcessEvent(event)
ProcessEventCall(ev) ==
    /\ UNCHANGED nonseq
    /\ Len(applied) < MaxApplied
    /\ ProcessEventWhole(ev)

InitSequential == PoolIdle /\ AggIdle /\ TrackerIdle /\ OthersIdle

NextSequential == \E ev \in SequentialInputs : ProcessEventCall(ev)

SpecSequential == InitSequential /\ [][NextSequential]_vars

\* C11: for every known reaction type rt, ProcessEvent on the event
\* ReactionEvent(session, user, rt) adds 1 to the session's rt counter and 1
\* to its total_reactions, and leaves the other per-type counters unchanged.
C11_ConstructorEventCounted ==
    [][\A rt \in KnownTypes :
          (/\ Len(applied') = Len(applied) + 1
           /\ applied'[Len(applied')] = ReactionEvent("s1", "u1", rt))
          => /\ GetReactionCount(StatsOf("s1")', rt)
                  = GetReactionCount(StatsOf("s1"), rt) + 1
             /\ GetTotalReactions(StatsOf("s1")')
                  = GetTotalReactions(StatsOf("s1")) + 1
             /\ \A other \in KnownTypes \ {rt} :
                  GetReactionCount(StatsOf("s1")', other)
                    = GetReactionCount(StatsOf("s1"), other)]_vars

\* the stats after ProcessEvent has been applied to the events of seq in
\* order, starting from st
RECURSIVE FoldEvents(_, _)
FoldEvents(st, seq) ==
    IF seq = <<>> THEN st
                  ELSE FoldEvents(ProcessEventOn(st, Head(seq)), Tail(seq))

\* every order of the events processed so far
Orders ==
    {[i \in 1..Len(applied) |-> applied[p[i]]] :
        p \in Permutations(1..Len(applied))}

\* no user has both a join and a leave among the events processed
NoUserJoinsAndLeaves ==
    \A i, j \in 1..Len(applied) :
        (applied[i].Type = "join_session" /\ applied[j].Type = "leave_session")
        => applied[i].UserID # applied[j].UserID

\* C20 as stated: every order of the events processed yields the same
\* final SessionStats: active-user set, per-type counts, total and peak.
C20_OrderIndependent ==
    \A o \in Orders : FoldEvents(NewSessionStats, o) = StatsOf("s1")

\* C20, amended: every order of the events processed yields the same per-type
\* and total reaction counts; it yields the same active-user set and peak as
\* well when no user has both a join and a leave among the events.
C20_CountsOrderIndependent ==
    \A o \in Orders :
        LET st == FoldEvents(NewSessionStats, o)
        IN  /\ st.ReactionCounts = StatsOf("s1").ReactionCounts
            /\ st.TotalReactions = StatsOf("s1").TotalReactions
            /\ NoUserJoinsAndLeaves => st = StatsOf("s1")

\* C20 witness: a join, a leave of another user and a counted reaction have
\* been processed
C20_Witness ==
    /\ Len(applied) = MaxApplied
    /\ NoUserJoinsAndLeaves
    /\ \E i, j \in 1..Len(applied) :
          applied[i].Type = "join_session" /\ applied[j].Type = "leave_session"
    /\ GetTotalReactions(StatsOf("s1")) = 1

(***************************************************************************)
(* The scenario: 3 distinct users join, 1 of them leaves, 2 more joins of  *)
(* which one repeats a user who joined before and one is a new user        *)
(***************************************************************************)
ScenarioUsers == {"u1", "u2", "u3", "u4", "u5"}

ScenarioInputs ==
    {JoinSessionEvent("s1", u) : u \in ScenarioUsers}
      \cup {LeaveSessionEvent("s1", u) : u \in ScenarioUsers}

\* the users of the first three joins made so far
FirstJoined ==
    {applied[i].UserID : i \in {j \in 1..Len(applied) : j <= 3}}

\* the events the scenario admits as its next call
ScenarioAllows(ev) ==
    CASE Len(applied) < 3 ->
           ev.Type = "join_session" /\ ev.UserID \notin FirstJoined
      [] Len(applied) = 3 ->
           ev.Type = "leave_session" /\ ev.UserID \in FirstJoined
      [] Len(applied) = 4 ->
           ev.Type = "join_session"
      [] Len(applied) = 5 ->
           /\ ev.Type = "join_session"
           /\ (ev.UserID \in FirstJoined) # (applied[5].UserID \in FirstJoined)
      [] OTHER -> FALSE

\* the next call of the scenario
ScenarioCall(ev) ==
    /\ UNCHANGED nonseq
    /\ ScenarioAllows(ev)
    /\ ProcessEventWhole(ev)

NextScenario == \E ev \in ScenarioInputs : ScenarioCall(ev)

SpecScenario == InitSequential /\ [][NextScenario]_vars

ScenarioDone == Len(applied) = 6

\* the user who left, and the user whose join is repeated
LeftUser == applied[4].UserID
RepeatedUser ==
    IF applied[5].UserID \in FirstJoined THEN applied[5].UserID
                                         ELSE applied[6].UserID

\* C15 as stated: the scenario ends with 4 active users and a peak of 4,
\* whichever user is repeated.
C15_ScenarioCounts ==
    ScenarioDone =>
        /\ GetActiveUserCount(StatsOf("s1")) = 4
        /\ StatsOf("s1").PeakConcurrentUsers = 4

\* C15, amended: the scenario ends with 4 active users and a peak of 4 when
\* the repeated user is the one who left; when the repeated user is still
\* active the repeated join adds nothing, and it ends with 3 active users and
\* a peak of 3.
C15_ScenarioCountsByRepeat ==
    ScenarioDone =>
        IF RepeatedUser = LeftUser
          THEN /\ GetActiveUserCount(StatsOf("s1")) = 4
               /\ StatsOf("s1").PeakConcurrentUsers = 4
          ELSE /\ GetActiveUserCount(StatsOf("s1")) = 3
               /\ StatsOf("s1").PeakConcurrentUsers = 3

\* C15 witness: the scenario is complete and the repeated user was still
\* active
C15_Witness ==
    /\ ScenarioDone
    /\ RepeatedUser # LeftUser
    /\ RepeatedUser \in StatsOf("s1").ActiveUsers

(***************************************************************************)
(* Milestone.UpdateProgress called by one thread                           *)
(***************************************************************************)
\* one milestone of session s1, with some threshold
InitMilestone ==
    /\ PoolIdle
    /\ OthersIdle
    /\ AggIdle
    /\ CheckersIdle
    /\ \E threshold \in 0..MaxValue :
          heap = <<NewMilestone("s1", "total_reactions", threshold)>>
    /\ tmilestones = [sid \in Sids |-> IF sid = "s1" THEN <<1>> ELSE <<>>]
    /\ tracked = {"s1"}
    /\ notifyCount = <<0>>
    /\ now = 1
    /\ nChecks = 0
    /\ hist = <<>>

\* the thread calls heap[1].UpdateProgress(v); the clock moves on
CallUpdateProgress(v) ==
    /\ UNCHANGED <<nontrk, cvars>>
    /\ Len(hist) < MaxUpdates
    /\ LET r == UpdateProgress(heap[1], v, now)
       IN  /\ heap' = [heap EXCEPT ![1] = r.m]
           /\ hist' = Append(hist, <<v, r.ret>>)
    /\ now' = now + 1
    /\ UNCHANGED <<tmilestones, tracked, notifyCount, nChecks>>

NextMilestone == \E v \in 0..MaxValue : CallUpdateProgress(v)

SpecMilestone == InitMilestone /\ [][NextMilestone]_vars

\* the index of the first call whose value reached the threshold (0: none)
FirstReached(h, threshold) ==
    LET reached == {i \in 1..Len(h) : h[i][1] >= threshold}
    IN  IF reached = {} THEN 0
        ELSE CHOOSE i \in reached : \A j \in reached : i <= j

\* C7: UpdateProgress returns true on exactly the first call whose value is
\* >= the threshold and false on every other call; Progress is the last value
\* given; once Achieved is true it stays true and AchievedAt never changes.
C7_AchievedOnce ==
    /\ [](\A i \in 1..Len(hist) :
             hist[i][2] = (i = FirstReached(hist, heap[1].Threshold)))
    /\ [](heap[1].Achieved = (FirstReached(hist, heap[1].Threshold) # 0))
    /\ [][heap[1].Achieved =>
            (heap'[1].Achieved /\ heap'[1].AchievedAt = heap[1].AchievedAt)]_vars

\* C7 witness: the threshold was reached, then the value fell below it, then
\* the threshold was reached again
C7_Witness ==
    /\ Len(hist) = 3
    /\ hist[1][1] >= heap[1].Threshold
    /\ hist[2][1] < heap[1].Threshold
    /\ hist[3][1] >= heap[1].Threshold
    /\ heap[1].Achieved

(***************************************************************************)
(* Tracker.CheckMilestones called by concurrent workers                    *)
(***************************************************************************)
\* the threshold lists sessions are initialized with
ThresholdLists == {<<1>>, <<2>>, <<1, 2>>, <<2, 1>>}

\* session s1 exists in the Manager and its milestones are initialized
InitTracker ==
    /\ PoolIdle
    /\ OthersIdle
    /\ sessions = [sid \in Sids |-> IF sid = "s1" THEN 1 ELSE 0]
    /\ nextInst = 2
    /\ stats = <<NewSessionStats>>
    /\ ThreadsIdle
    /\ NothingObserved
    /\ CheckersIdle
    /\ \E thresholds \in ThresholdLists :
          /\ heap = [i \in 1..Len(thresholds) |->
                       NewMilestone("s1", "total_reactions", thresholds[i])]
          /\ notifyCount = [i \in 1..Len(thresholds) |-> 0]
          /\ tmilestones = [sid \in Sids |->
                              IF sid = "s1" THEN [i \in 1..Len(thresholds) |-> i]
                              ELSE <<>>]
    /\ tracked = {"s1"}
    /\ now = 1
    /\ nChecks = 0
    /\ hist = <<>>

\* another worker's IncrementReaction on session s1: atomic.AddInt64(s.TotalReactions, 1)
ReactionCounted ==
    /\ UNCHANGED nonagg
    /\ stats[1].TotalReactions < MaxTotal
    /\ stats' = [stats EXCEPT ![1].TotalReactions = @ + 1]
    /\ UNCHANGED <<sessions, nextInst, tvars, avars>>

\* CheckMilestones: the metric a milestone is measured with, by its type
\* (currentValue stays 0 for a type the switch does not name)
CurrentValue(m, totalReactions, activeUsers) ==
    CASE m.Type = "total_reactions" -> totalReactions
      [] m.Type = "concurrent_users" -> activeUsers
      [] OTHER -> 0

\* a worker calls Tracker.CheckMilestones(sessionID, stats): the slice is read
\* under t.mu.RLock; without an entry the call returns
CheckMilestones(c, sid) ==
    /\ UNCHANGED nontrk
    /\ cpc[c] = "idle"
    /\ nChecks < MaxChecks
    /\ nChecks' = nChecks + 1
    /\ IF sid \in tracked
         THEN /\ cms' = [cms EXCEPT ![c] = tmilestones[sid]]
              /\ cpc' = [cpc EXCEPT ![c] = "stats"]
         ELSE UNCHANGED <<cms, cpc>>
    /\ UNCHANGED <<trvars, ci, cval, cau, notifyCount, hist>>

\* CheckMilestones: stats.GetTotalReactions() and stats.GetActiveUserCount()
CheckReadStats(c) ==
    /\ UNCHANGED nontrk
    /\ cpc[c] = "stats"
    /\ cval' = [cval EXCEPT ![c] = GetTotalReactions(stats[1])]
    /\ cau' = [cau EXCEPT ![c] = GetActiveUserCount(stats[1])]
    /\ ci' = [ci EXCEPT ![c] = 1]
    /\ cpc' = [cpc EXCEPT ![c] = "loop"]
    /\ UNCHANGED <<trvars, cms, hvars>>

\* CheckMilestones: the head of the range loop and `if milestone.Achieved`
CheckLoop(c) ==
    /\ UNCHANGED nontrk
    /\ cpc[c] = "loop"
    /\ IF ci[c] > Len(cms[c])
         THEN /\ cpc' = [cpc EXCEPT ![c] = "idle"]
              /\ UNCHANGED ci
         ELSE IF heap[cms[c][ci[c]]].Achieved
           THEN /\ ci' = [ci EXCEPT ![c] = @ + 1]
                /\ UNCHANGED cpc
           ELSE /\ cpc' = [cpc EXCEPT ![c] = "store"]
                /\ UNCHANGED ci
    /\ UNCHANGED <<trvars, cms, cval, cau, hvars>>

\* UpdateProgress, no lock held: m.Progress = currentValue
UpdateProgressStore(c) ==
    /\ UNCHANGED nontrk
    /\ cpc[c] = "store"
    /\ LET a == cms[c][ci[c]]
       IN  heap' = [heap EXCEPT ![a].Progress = CurrentValue(heap[a], cval[c], cau[c])]
    /\ cpc' = [cpc EXCEPT ![c] = "test"]
    /\ UNCHANGED <<tmilestones, tracked, now, cms, ci, cval, cau, hvars>>

\* a faulty test: a value equal to the threshold does not reach it
UpdateProgressTestStrict(c) ==
    /\ UNCHANGED nontrk
    /\ cpc[c] = "test"
    /\ LET a == cms[c][ci[c]]
       IN  IF ~heap[a].Achieved /\ CurrentValue(heap[a], cval[c], cau[c]) > heap[a].Threshold
             THEN /\ cpc' = [cpc EXCEPT ![c] = "achieve"]
                  /\ UNCHANGED ci
             ELSE /\ cpc' = [cpc EXCEPT ![c] = "loop"]
                  /\ ci' = [ci EXCEPT ![c] = @ + 1]
    /\ UNCHANGED <<trvars, cms, cval, cau, hvars>>

\* UpdateProgress, no lock held: `if !m.Achieved && currentValue >= m.Threshold`;
\* when it fails UpdateProgress returns false and the loop goes on
UpdateProgressTest(c) ==
    /\ UNCHANGED nontrk
    /\ cpc[c] = "test"
    /\ LET a == cms[c][ci[c]]
       IN  IF ~heap[a].Achieved /\ CurrentValue(heap[a], cval[c], cau[c]) >= heap[a].Threshold
             THEN /\ cpc' = [cpc EXCEPT ![c] = "achieve"]
                  /\ UNCHANGED ci
             ELSE /\ cpc' = [cpc EXCEPT ![c] = "loop"]
                  /\ ci' = [ci EXCEPT ![c] = @ + 1]
    /\ UNCHANGED <<trvars, cms, cval, cau, hvars>>

\* UpdateProgress, no lock held: m.Achieved = true, m.AchievedAt = now, return
\* true; CheckMilestones then starts the notification handler
UpdateProgressAchieve(c) ==
    /\ UNCHANGED nontrk
    /\ cpc[c] = "achieve"
    /\ LET a == cms[c][ci[c]]
       IN  /\ heap' = [heap EXCEPT ![a].Achieved = TRUE, ![a].AchievedAt = now]
           /\ notifyCount' = [notifyCount EXCEPT ![a] = @ + 1]
    /\ now' = now + 1
    /\ ci' = [ci EXCEPT ![c] = @ + 1]
    /\ cpc' = [cpc EXCEPT ![c] = "loop"]
    /\ UNCHANGED <<tmilestones, tracked, cms, cval, cau, nChecks, hist>>

NextTracker ==
    \/ ReactionCounted
    \/ \E c \in Threads : CheckMilestones(c, "s1")
    \/ \E c \in Threads : CheckReadStats(c)
    \/ \E c \in Threads : CheckLoop(c)
    \/ \E c \in Threads : UpdateProgressStore(c)
    \/ \E c \in Threads : UpdateProgressTest(c)
    \/ \E c \in Threads : UpdateProgressAchieve(c)

SpecTracker == InitTracker /\ [][NextTracker]_vars

\* C4: the notification handler is invoked at most once per milestone, and
\* exactly once for a milestone that is achieved when the calls of
\* CheckMilestones have returned.
C4_NotifiedExactlyOnce ==
    \A a \in 1..Len(heap) :
        /\ notifyCount[a] <= 1
        /\ (heap[a].Achieved /\ \A c \in Threads : cpc[c] = "idle")
              => notifyCount[a] = 1

(***************************************************************************)
(* Workers running the handler on reaction events: Manager.ProcessEvent,   *)
(* then Tracker.CheckMilestones on the stats of the event's session        *)
(***************************************************************************)
\* number of events the workers handle
MaxHandled == 2

\* the threshold lists session s1 is initialized with
HandlerThresholdLists == {<<1>>, <<2, 3>>}

\* the reaction events the workers handle: a known and an unknown type, both
\* given as strings
HandlerInputs ==
    {NewEvent("reaction", "s1", "u1", StringValue(v)) : v \in {"like", "wow"}}

\* session s1 exists in the Manager and its milestones are initialized
InitHandler ==
    /\ PoolIdle
    /\ OthersIdle
    /\ sessions = [sid \in Sids |-> IF sid = "s1" THEN 1 ELSE 0]
    /\ nextInst = 2
    /\ stats = <<NewSessionStats>>
    /\ ThreadsIdle
    /\ NothingObserved
    /\ CheckersIdle
    /\ \E thresholds \in HandlerThresholdLists :
          /\ heap = [i \in 1..Len(thresholds) |->
                       NewMilestone("s1", "total_reactions", thresholds[i])]
          /\ notifyCount = [i \in 1..Len(thresholds) |-> 0]
          /\ tmilestones = [sid \in Sids |->
                              IF sid = "s1" THEN [i \in 1..Len(thresholds) |-> i]
                              ELSE <<>>]
    /\ tracked = {"s1"}
    /\ now = 1
    /\ nChecks = 0
    /\ hist = <<>>

\* a worker enters the handler with an event: manager.ProcessEvent(event)
HandlerCall(t, ev) ==
    /\ top[t] = ""
    /\ nCalls < MaxHandled
    /\ ProcessEvent(t, ev)

\* the handler, after ProcessEvent has returned:
\* tracker.CheckMilestones(event.SessionID, stats)
HandlerCheck(t) ==
    /\ top[t] = "ProcessEvent"
    /\ tpc[t] = "idle"
    /\ cms[t] = <<>>
    /\ CheckMilestones(t, tev[t].SessionID)

\* the handler returns after CheckMilestones has returned; its locals are gone
HandlerReturn(t) ==
    /\ UNCHANGED <<poolvars, othervars>>
    /\ top[t] = "ProcessEvent"
    /\ tpc[t] = "idle"
    /\ cpc[t] = "idle"
    /\ cms[t] # <<>>
    /\ top' = [top EXCEPT ![t] = ""]
    /\ tev' = [tev EXCEPT ![t] = NoEvent]
    /\ cms' = [cms EXCEPT ![t] = <<>>]
    /\ ci' = [ci EXCEPT ![t] = 1]
    /\ cval' = [cval EXCEPT ![t] = 0]
    /\ cau' = [cau EXCEPT ![t] = 0]
    /\ UNCHANGED <<mvars, tpc, tsid, tinst, tctr, avars, trvars, cpc, hvars>>

NextHandler ==
    \/ \E t \in Threads, ev \in HandlerInputs : HandlerCall(t, ev)
    \/ \E t \in Threads : ProcessEventSwitch(t)
    \/ \E t \in Threads : IncrementReactionUnknown(t)
    \/ \E t \in Threads : IncrementReactionCounter(t)
    \/ \E t \in Threads : IncrementReactionTotal(t)
    \/ \E t \in Threads : IncrementReactionTouch(t)
    \/ \E t \in Threads : HandlerCheck(t)
    \/ \E t \in Threads : CheckReadStats(t)
    \/ \E t \in Threads : CheckLoop(t)
    \/ \E t \in Threads : UpdateProgressStore(t)
    \/ \E t \in Threads : UpdateProgressTest(t)
    \/ \E t \in Threads : UpdateProgressAchieve(t)
    \/ \E t \in Threads : HandlerReturn(t)

SpecHandler == InitHandler /\ [][NextHandler]_vars

\* every handler call made so far has returned
HandlersReturned == \A t \in Threads : top[t] = ""

\* C21: no threshold crossing is missed. Once all the handler calls on k
\* reaction events with a string type have returned, every total_reactions
\* milestone of the session with threshold T <= k is achieved and the
\* notification handler has been invoked for it at least once, and a
\* milestone with a threshold above k is not achieved.
C21_NoCrossingMissed ==
    HandlersReturned =>
        \A a \in 1..Len(heap) :
            IF heap[a].Threshold <= nString
              THEN heap[a].Achieved /\ notifyCount[a] >= 1
              ELSE ~heap[a].Achieved

\* C21 witness: all handler calls have returned, the last reaction reached a
\* threshold, and a higher threshold of the session is still ahead
C21_Witness ==
    /\ HandlersReturned
    /\ nString = 2
    /\ \E a \in 1..Len(heap) : heap[a].Threshold = nString /\ heap[a].Achieved
    /\ \E a \in 1..Len(heap) : heap[a].Threshold > nString /\ ~heap[a].Achieved

(***************************************************************************)
(* SessionStats.GetSnapshot called while other threads process events      *)
(*                                                                         *)
(* s.mu is a sync.RWMutex: a Lock() called while read locks are held waits *)
(* for them to be released, and from that call on every new RLock() waits  *)
(* for the writer, also the RLock() of a thread that holds a read lock.    *)
(***************************************************************************)
\* number of GetSnapshot calls
MaxSnapshots == 1

\* the events the writers process on session s1
SnapshotInputs ==
    {JoinSessionEvent("s1", "u1"), LeaveSessionEvent("s1", "u1"),
     NewEvent("reaction", "s1", "u1", StringValue("like")),
     NewEvent("reaction", "s1", "u1", StringValue("wow"))}

\* session s1 exists in the Manager
InitSnapshot ==
    /\ PoolIdle
    /\ TrackerIdle
    /\ OthersIdle
    /\ sessions = [sid \in Sids |-> IF sid = "s1" THEN 1 ELSE 0]
    /\ nextInst = 2
    /\ stats = <<NewSessionStats>>
    /\ ThreadsIdle
    /\ NothingObserved

\* a thread has called s.mu.Lock() and waits for the read locks to go
WriterPending == \E t \in Threads : tpc[t] \in {"dispatch_wait", "touch_wait"}

\* s.mu.Lock() called by AddUser, RemoveUser or IncrementReaction while a read
\* lock is held: the thread waits
StatsLockWait(t) ==
    /\ UNCHANGED nonagg
    /\ tpc[t] \in {"dispatch", "touch"}
    /\ readers > 0
    /\ tpc' = [tpc EXCEPT ![t] = IF tpc[t] = "dispatch" THEN "dispatch_wait"
                                                         ELSE "touch_wait"]
    /\ UNCHANGED <<mvars, top, tsid, tinst, tev, tctr, avars>>

\* AddUser, RemoveUser, or the counter lookup of IncrementReaction: s.mu.Lock()
\* is granted when no read lock is held, and the critical section runs
StatsLocked(t) ==
    /\ UNCHANGED nonagg
    /\ tpc[t] \in {"dispatch", "dispatch_wait"}
    /\ readers = 0
    /\ LET ev == tev[t]
           rt == GetReactionType(ev)
       IN  CASE ev.Type = "join_session" ->
                  /\ stats' = [stats EXCEPT ![tinst[t]] = AddUser(@, ev.UserID)]
                  /\ tpc' = [tpc EXCEPT ![t] = "idle"]
                  /\ UNCHANGED tctr
             [] ev.Type = "leave_session" ->
                  /\ stats' = [stats EXCEPT ![tinst[t]] = RemoveUser(@, ev.UserID)]
                  /\ tpc' = [tpc EXCEPT ![t] = "idle"]
                  /\ UNCHANGED tctr
             [] ev.Type = "reaction" /\ rt[2] ->
                  /\ IF rt[1] \in DOMAIN stats[tinst[t]].ReactionCounts
                       THEN /\ tctr' = [tctr EXCEPT ![t] = rt[1]]
                            /\ tpc' = [tpc EXCEPT ![t] = "add_counter"]
                       ELSE /\ tpc' = [tpc EXCEPT ![t] = "add_unknown"]
                            /\ UNCHANGED tctr
                  /\ UNCHANGED stats
    /\ UNCHANGED <<sessions, nextInst, top, tsid, tinst, tev, avars>>

\* IncrementReaction: s.mu.Lock() is granted, s.LastActivity is set and the
\* call returns
StatsTouchLocked(t) ==
    /\ UNCHANGED nonagg
    /\ tpc[t] \in {"touch", "touch_wait"}
    /\ readers = 0
    /\ tpc' = [tpc EXCEPT ![t] = "idle"]
    /\ tctr' = [tctr EXCEPT ![t] = ""]
    /\ UNCHANGED <<mvars, top, tsid, tinst, tev, avars>>

\* SessionStats.GetSnapshot(): s.mu.RLock() is granted; under it the count of
\* active users and the peak are read
GetSnapshot ==
    /\ UNCHANGED nonsnap
    /\ spc \in {"idle", "returned"}
    /\ nSnaps < MaxSnapshots
    /\ ~WriterPending
    /\ readers' = readers + 1
    /\ snap' = [NoSnapshot EXCEPT
                  !.ActiveUserCount = Cardinality(stats[1].ActiveUsers),
                  !.PeakConcurrentUsers = stats[1].PeakConcurrentUsers]
    /\ spc' = "total"
    /\ UNCHANGED <<sleft, nSnaps>>

\* GetSnapshot: atomic.LoadInt64(s.TotalReactions)
GetSnapshotLoadTotal ==
    /\ UNCHANGED nonsnap
    /\ spc = "total"
    /\ snap' = [snap EXCEPT !.TotalReactions = stats[1].TotalReactions]
    /\ spc' = "inner_rlock"
    /\ UNCHANGED <<readers, sleft, nSnaps>>

\* GetAllReactionCounts, called by GetSnapshot: s.mu.RLock() is granted
GetAllReactionCountsRLock ==
    /\ UNCHANGED nonsnap
    /\ spc = "inner_rlock"
    /\ ~WriterPending
    /\ readers' = readers + 1
    /\ sleft' = KnownTypes
    /\ spc' = "counts"
    /\ UNCHANGED <<snap, nSnaps>>

\* GetAllReactionCounts: one iteration of the range over s.ReactionCounts,
\* in the map's order: atomic.LoadInt64(counter)
GetAllReactionCountsLoad(rt) ==
    /\ UNCHANGED nonsnap
    /\ spc = "counts"
    /\ rt \in sleft
    /\ snap' = [snap EXCEPT !.ReactionCounts[rt] = stats[1].ReactionCounts[rt]]
    /\ sleft' = sleft \ {rt}
    /\ UNCHANGED <<readers, spc, nSnaps>>

\* GetAllReactionCounts returns: its deferred s.mu.RUnlock()
GetAllReactionCountsReturn ==
    /\ UNCHANGED nonsnap
    /\ spc = "counts"
    /\ sleft = {}
    /\ readers' = readers - 1
    /\ spc' = "runlock"
    /\ UNCHANGED <<snap, sleft, nSnaps>>

\* GetSnapshot returns the snapshot: its deferred s.mu.RUnlock()
GetSnapshotReturn ==
    /\ UNCHANGED nonsnap
    /\ spc = "runlock"
    /\ readers' = readers - 1
    /\ spc' = "returned"
    /\ nSnaps' = nSnaps + 1
    /\ UNCHANGED <<snap, sleft>>

NextSnapshot ==
    \/ \E t \in Threads, ev \in SnapshotInputs : ProcessEvent(t, ev)
    \/ \E t \in Threads : StatsLockWait(t)
    \/ \E t \in Threads : StatsLocked(t)
    \/ \E t \in Threads : IncrementReactionUnknown(t)
    \/ \E t \in Threads : IncrementReactionCounter(t)
    \/ \E t \in Threads : IncrementReactionTotal(t)
    \/ \E t \in Threads : StatsTouchLocked(t)
    \/ GetSnapshot
    \/ GetSnapshotLoadTotal
    \/ GetAllReactionCountsRLock
    \/ \E rt \in KnownTypes : GetAllReactionCountsLoad(rt)
    \/ GetAllReactionCountsReturn
    \/ GetSnapshotReturn

SpecSnapshot == InitSnapshot /\ [][NextSnapshot]_vars

\* the sum of the per-type counts of a snapshot
SumSnapshot(sn) ==
    sn.ReactionCounts["like"] + sn.ReactionCounts["love"]
      + sn.ReactionCounts["cheer"] + sn.ReactionCounts["applause"]
      + sn.ReactionCounts["fire"] + sn.ReactionCounts["heart"]

\* C12: no snapshot observes a torn reaction update: in every snapshot that
\* GetSnapshot returns while IncrementReaction calls run, TotalReactions is
\* the sum of ReactionCounts plus a number of reactions of unknown type that
\* were counted, so the sum never exceeds TotalReactions.
C12_NoTornSnapshot ==
    spc = "returned" =>
        /\ SumSnapshot(snap) <= snap.TotalReactions
        /\ snap.TotalReactions - SumSnapshot(snap) <= nUnknown

\* the thread in GetSnapshot holds a read lock and waits for a second one
SnapshotBlocked == spc = "inner_rlock" /\ readers > 0 /\ WriterPending

\* a thread waits in s.mu.Lock() for the read locks to be released
WriterBlocked == readers > 0 /\ WriterPending

\* C17: GetSnapshot always completes when it runs concurrently with AddUser,
\* RemoveUser or IncrementReaction on the same session: no state is reached
\* in which the snapshot reader, holding the read lock, waits for its second
\* read lock while a writer waits for the exclusive lock, so that neither
\* can proceed.
C17_SnapshotCompletes == ~(SnapshotBlocked /\ WriterBlocked)

(***************************************************************************)
(* Tracker.GetSessionMilestones / GetAchievedMilestones and their caller   *)
(*                                                                         *)
(* A []*Milestone is a sequence of addresses into heap: copying the slice  *)
(* copies the addresses, and the Milestone objects stay shared.            *)
(***************************************************************************)
\* number of modifications the caller makes through a returned slice
MaxWrites == 1

\* Tracker.GetSessionMilestones(sessionID), under t.mu.RLock: nil without an
\* entry, otherwise make + copy of the slice
GetSessionMilestones(sid) ==
    /\ UNCHANGED noncall
    /\ nWrites = 0
    /\ got' = IF sid \in tracked THEN tmilestones[sid] ELSE <<>>
    /\ UNCHANGED <<trkvars, nWrites>>

\* Tracker.GetAchievedMilestones(sessionID), under t.mu.RLock: nil without an
\* entry, otherwise the milestones with Achieved set, appended in order
GetAchievedMilestones(sid) ==
    /\ UNCHANGED noncall
    /\ nWrites = 0
    /\ got' = IF sid \in tracked
                THEN SelectSeq(tmilestones[sid], LAMBDA a : heap[a].Achieved)
                ELSE <<>>
    /\ UNCHANGED <<trkvars, nWrites>>

\* the caller replaces an element of the returned slice: result[i] = a
\* (0 is nil)
CallerReplacesElement(i, a) ==
    /\ UNCHANGED noncall
    /\ i \in DOMAIN got
    /\ nWrites < MaxWrites
    /\ got' = [got EXCEPT ![i] = a]
    /\ nWrites' = nWrites + 1
    /\ UNCHANGED trkvars

\* the caller changes Progress of a returned milestone: result[i].Progress = v
CallerSetsProgress(i, v) ==
    /\ UNCHANGED noncall
    /\ i \in DOMAIN got
    /\ got[i] # 0
    /\ nWrites < MaxWrites
    /\ heap' = [heap EXCEPT ![got[i]].Progress = v]
    /\ nWrites' = nWrites + 1
    /\ UNCHANGED <<tmilestones, tracked, now, cvars, hvars, got>>

\* the caller changes Achieved of a returned milestone: result[i].Achieved = b
CallerSetsAchieved(i, b) ==
    /\ UNCHANGED noncall
    /\ i \in DOMAIN got
    /\ got[i] # 0
    /\ nWrites < MaxWrites
    /\ heap' = [heap EXCEPT ![got[i]].Achieved = b]
    /\ nWrites' = nWrites + 1
    /\ UNCHANGED <<tmilestones, tracked, now, cvars, hvars, got>>

\* one worker checks the milestones while the caller uses the getters
NextGetters ==
    \/ ReactionCounted
    \/ CheckMilestones(1, "s1")
    \/ CheckReadStats(1)
    \/ CheckLoop(1)
    \/ UpdateProgressStore(1)
    \/ UpdateProgressTest(1)
    \/ UpdateProgressAchieve(1)
    \/ \E sid \in Sids : GetSessionMilestones(sid)
    \/ \E sid \in Sids : GetAchievedMilestones(sid)
    \/ \E i \in 1..2, a \in 0..2 : CallerReplacesElement(i, a)
    \/ \E i \in 1..2, v \in 0..MaxValue : CallerSetsProgress(i, v)
    \/ \E i \in 1..2, b \in BOOLEAN : CallerSetsAchieved(i, b)

SpecGetters == InitTracker /\ [][NextGetters]_vars

\* C14: GetSessionMilestones and GetAchievedMilestones return defensive
\* copies: no modification the caller makes through the returned slice
\* (replacing an element, changing Progress or Achieved of a returned
\* milestone) changes the milestone state the tracker holds.
C14_DefensiveCopies ==
    [][nWrites' # nWrites =>
          /\ tmilestones' = tmilestones
          /\ \A sid \in tracked : \A i \in DOMAIN tmilestones[sid] :
                heap'[tmilestones[sid][i]] = heap[tmilestones[sid][i]]]_vars

(***************************************************************************)
(* Queue.Close() called by any thread, concurrently with Enqueue and with  *)
(* the Dequeue calls of the workers                                        *)
(***************************************************************************)
\* number of Close calls
MaxCloses == 2
\* number of events offered to Enqueue while Close is called
MaxOffers == 2

\* a thread calls Queue.Enqueue(event)
EnqueueCall ==
    /\ nextEv <= MaxOffers
    /\ Produce

\* a thread calls Queue.Close()
CloseCall ==
    /\ UNCHANGED nonqueue
    /\ nCloses < MaxCloses
    /\ Close
    /\ nCloses' = nCloses + 1
    /\ UNCHANGED <<pvars, nextEv, enqRes, started, finished, errSeen,
                   deqAfterClose, offeredAfter>>

\* (the handlers return without error: what they return has no part in
\* Enqueue, Dequeue or Close)
NextQueue ==
    \/ EnqueueCall
    \/ Start
    \/ \E w \in Workers : WorkerCheckCtx(w)
    \/ \E w \in Workers : Dequeue(w)
    \/ \E w \in Workers : WorkerHandle(w)
    \/ \E w \in Workers : WorkerHandlerReturns(w, FALSE)
    \/ CloseCall

SpecQueue == InitPool /\ [][NextQueue]_vars

FairSpecQueue == SpecQueue /\ FairnessPool

\* a Dequeue has returned event e
Delivered(e) ==
    \/ started[e] >= 1
    \/ \E w \in Workers : wpc[w] = "recv" /\ wev[w] = e

\* C19: Close is idempotent and safe under concurrency. Whatever the number
\* of Close calls interleaved with Enqueue and Dequeue calls, no thread sends
\* on or closes the closed channel; a Close on the closed queue changes
\* nothing; an event Enqueue accepted is in the buffer until a Dequeue
\* returns it, and one it refused is never in the buffer nor delivered; and
\* a Dequeue blocked on the closed, empty queue returns not-ok: it leaves
\* Dequeue only that way, and under fair scheduling no worker stays in it.
C19_CloseIdempotentAndSafe ==
    /\ [](~panicked)
    /\ [][(nCloses' # nCloses /\ closed) => qvars' = qvars]_vars
    /\ [](\A e \in EventIds :
            /\ enqRes[e] = "true" => ((e \in Range(events)) # Delivered(e))
            /\ enqRes[e] = "false" => (e \notin Range(events) /\ ~Delivered(e)))
    /\ [][\A w \in Workers :
            (wpc[w] = "dequeue" /\ closed /\ events = <<>> /\ wpc'[w] # "dequeue")
            => wpc'[w] = "done"]_vars
    /\ (closed /\ events = <<>>) ~> (\A w \in Workers : wpc[w] # "dequeue")

\* C19 witness: Close has been called twice, an event offered after the first
\* Close was refused, an accepted event has been handled, and a worker has
\* returned from its Dequeue on the closed, empty queue
C19_Witness ==
    /\ nCloses = 2
    /\ offeredAfter # {}
    /\ \E e \in EventIds : enqRes[e] = "true" /\ finished[e] = 1
    /\ \E w \in Workers : wpc[w] = "done"

(***************************************************************************)
(* Tracker.InitializeSession and AddCustomMilestone called any number of   *)
(* times, while a worker calls CheckMilestones                             *)
(***************************************************************************)
\* number of Milestone objects the registration calls allocate
MaxMilestones == 3

\* the threshold lists InitializeSession is called with
RegisterThresholdLists == {<<1>>, <<1, 2>>}

\* the milestone types AddCustomMilestone is called with
RegisterTypes == {"total_reactions", "concurrent_users"}

\* Tracker.InitializeSession(sessionID, thresholds), under t.mu.Lock: one new
\* total_reactions Milestone per element of thresholds, in a new slice that
\* replaces the session's entry
InitializeSession(sessionID, thresholds) ==
    /\ UNCHANGED <<nontrk, cvars>>
    /\ LET n == Len(thresholds)
           base == Len(heap)
       IN  /\ heap' = heap \o [i \in 1..n |->
                          NewMilestone(sessionID, "total_reactions", thresholds[i])]
           /\ notifyCount' = notifyCount \o [i \in 1..n |-> 0]
           /\ tmilestones' = [tmilestones EXCEPT
                                ![sessionID] = [i \in 1..n |-> base + i]]
    /\ tracked' = tracked \cup {sessionID}
    /\ UNCHANGED <<now, nChecks, hist>>

\* Tracker.AddCustomMilestone(sessionID, milestoneType, threshold), under
\* t.mu.Lock: a new Milestone appended to the session's slice
AddCustomMilestone(sessionID, milestoneType, threshold) ==
    /\ UNCHANGED <<nontrk, cvars>>
    /\ heap' = Append(heap, NewMilestone(sessionID, milestoneType, threshold))
    /\ notifyCount' = Append(notifyCount, 0)
    /\ tmilestones' = [tmilestones EXCEPT
                         ![sessionID] = Append(@, Len(heap) + 1)]
    /\ tracked' = tracked \cup {sessionID}
    /\ UNCHANGED <<now, nChecks, hist>>

\* session s1 exists in the Manager; the Tracker is new
InitRegister ==
    /\ PoolIdle
    /\ OthersIdle
    /\ sessions = [sid \in Sids |-> IF sid = "s1" THEN 1 ELSE 0]
    /\ nextInst = 2
    /\ stats = <<NewSessionStats>>
    /\ ThreadsIdle
    /\ NothingObserved
    /\ TrackerIdle

\* a thread calls InitializeSession for session s1
InitializeSessionCall(thresholds) ==
    /\ Len(heap) + Len(thresholds) <= MaxMilestones
    /\ InitializeSession("s1", thresholds)

\* a thread calls AddCustomMilestone for session s1
AddCustomMilestoneCall(milestoneType, threshold) ==
    /\ Len(heap) < MaxMilestones
    /\ AddCustomMilestone("s1", milestoneType, threshold)

NextRegister ==
    \/ \E thresholds \in RegisterThresholdLists : InitializeSessionCall(thresholds)
    \/ \E milestoneType \in RegisterTypes, threshold \in 1..2 :
          AddCustomMilestoneCall(milestoneType, threshold)
    \/ ReactionCounted
    \/ CheckMilestones(1, "s1")
    \/ CheckReadStats(1)
    \/ CheckLoop(1)
    \/ UpdateProgressStore(1)
    \/ UpdateProgressTest(1)
    \/ UpdateProgressAchieve(1)

SpecRegister == InitRegister /\ [][NextRegister]_vars

\* C22: re-registration is idempotent. After any sequence of
\* InitializeSession and AddCustomMilestone calls no session's collection
\* holds two milestones with the same id, and no id has its achievement
\* notified a second time.
C22_RegistrationIdempotent ==
    /\ \A sid \in Sids :
          \A i, j \in 1..Len(tmilestones[sid]) :
              i # j => heap[tmilestones[sid][i]].ID # heap[tmilestones[sid][j]].ID
    /\ \A a, b \in 1..Len(heap) :
          (a # b /\ heap[a].ID = heap[b].ID) => notifyCount[a] + notifyCount[b] <= 1

\* C23: milestone progress updates are insensitive to re-ordering. A step of
\* UpdateProgress made by a worker whose CheckMilestones read a value lower
\* than the milestone's Progress leaves the milestone (Progress, Achieved,
\* AchievedAt) as it is, and the Progress of a milestone never decreases.
C23_LowerValueIsNoOp ==
    /\ [][\A c \in Threads :
            (/\ cpc[c] \in {"store", "test", "achieve"}
             /\ cpc'[c] # cpc[c]
             /\ CurrentValue(heap[cms[c][ci[c]]], cval[c], cau[c])
                   < heap[cms[c][ci[c]]].Progress)
            => heap'[cms[c][ci[c]]] = heap[cms[c][ci[c]]]]_vars
    /\ [][\A a \in 1..Len(heap) : heap'[a].Progress >= heap[a].Progress]_vars
====
